---- MODULE Spec2Model ----
(***************************************************************************)
(* Model of the stope design pipeline of the mining stope design tool:     *)
(* stope_calculations.calculate_stope_design and the functions it calls    *)
(* in stability_analysis and cost_estimation, together with its caller     *)
(* pattern in gui.py and the validator of input_validation.                *)
(*                                                                         *)
(* Numbers.  The program computes in binary floating point.  The model     *)
(* computes in decimal fixed point:                                        *)
(*   - the four input fields are decimals with one fractional digit and    *)
(*     are held in tenths (dip 45.5 is 455, ore thickness 0.3 is 3);       *)
(*   - reported values (round(x, 2)) are held in hundredths;               *)
(*   - intermediate values are held in the unit named at each operator     *)
(*     (1e-6, 1e-7, 1e-4) and products are truncated to that unit;         *)
(*   - math.cos, math.exp / ** and math.log are tabulated at the values    *)
(*     the input sets below can produce;                                   *)
(*   - round(x, 2) is rounding to the nearest hundredth, ties to even.     *)
(* On the input sets below the model's stability and cost records equal    *)
(* the program's digit for digit; the dimensions agree except at exact     *)
(* decimal ties of width_raw * safety_adj (dip 60, depth <= 500, rqd 25    *)
(* or 75), where the floating-point representation error decides the last  *)
(* digit of width, and length, height and volume follow it.                *)
(***************************************************************************)
EXTENDS Integers, Sequences, FiniteSets, TLC

(***************************************************************************)
(* Bounds of the model.                                                    *)
(***************************************************************************)
\* number of calls of calculate_stope_design one caller makes in a run
MaxCalls == 2

(***************************************************************************)
(* Input sets (tenths).  Each set holds the thresholds of the decision     *)
(* rules, of the validators and of the stress / cost formulas, a value     *)
(* just beside each threshold, and values outside the accepted ranges.     *)
(***************************************************************************)
DipValues       == {-5, 0, 300, 305, 450, 455, 600, 605, 700, 705, 900, 905}
RqdValues       == {245, 250, 499, 500, 599, 600, 749, 750, 1000, 1005}
DepthValues     == {45, 50, 2060, 3000, 5000, 5005, 7995, 8000, 20000, 20005}
ThicknessValues == {2, 3, 10, 1000, 1005}

(***************************************************************************)
(* Python values.  A field of an input mapping holds a float (kind "num",  *)
(* v in tenths), a non-finite float or the text that float() parses to     *)
(* one ("nan", "inf", "ninf"), a text that float() rejects ("text"), the   *)
(* empty string ("empty") or None ("none").                                *)
(***************************************************************************)
Num(n)  == [kind |-> "num", v |-> n]
NaN     == [kind |-> "nan", v |-> 0]
PosInf  == [kind |-> "inf", v |-> 0]
NegInf  == [kind |-> "ninf", v |-> 0]
Text    == [kind |-> "text", v |-> 0]
Empty   == [kind |-> "empty", v |-> 0]
None    == [kind |-> "none", v |-> 0]

\* float(val): the kinds for which the conversion succeeds
FloatParses(x) == x.kind \in {"num", "nan", "inf", "ninf"}

\* x < n, x > n, lo <= x <= hi on floats: every comparison with NaN is false
FloatLt(x, n) == \/ x.kind = "ninf"
                 \/ x.kind = "num" /\ x.v < n
FloatGt(x, n) == \/ x.kind = "inf"
                 \/ x.kind = "num" /\ x.v > n
FloatBetween(lo, x, hi) == x.kind = "num" /\ lo <= x.v /\ x.v <= hi

\* dict.get(key, default)
Get(d, key, default) == IF key \in DOMAIN d THEN d[key] ELSE default

\* the mapping d with d[key] = val assigned
Put(d, key, val) ==
    [k \in (DOMAIN d) \cup {key} |-> IF k = key THEN val ELSE d[k]]

Max[a \in Int, b \in Int] == IF a >= b THEN a ELSE b
Min[a \in Int, b \in Int] == IF a <= b THEN a ELSE b

(***************************************************************************)
(* Fixed-point arithmetic on naturals.  The helpers are functions, so that  *)
(* an argument is evaluated once, as Python evaluates it.                  *)
(***************************************************************************)
\* n / d rounded to the nearest integer, ties to even (Python's round)
RoundDiv[n \in Int, d \in Int] ==
    LET q == n \div d
        r == n % d
    IN  IF 2 * r > d \/ (2 * r = d /\ q % 2 = 1) THEN q + 1 ELSE q

\* floor(a * b / c), computed without forming a * b
MulDiv[a \in Int, b \in Int, c \in Int] == (a \div c) * b + ((a % c) * b) \div c

\* a * b / c rounded to the nearest integer, ties to even, without forming a * b
RoundMulDiv[a \in Int, b \in Int, c \in Int] ==
    LET f == MulDiv[a, b, c]
        r == ((a % c) * b) % c
    IN  IF 2 * r > c \/ (2 * r = c /\ f % 2 = 1) THEN f + 1 ELSE f

\* <<q, r>> with a * b = q * c + r and 0 <= r < c, by doubling, for products
\* beyond the integer range
RECURSIVE MulDivPair(_, _, _)
MulDivPair(a, b, c) ==
    IF b = 0 THEN <<0, 0>>
    ELSE LET h == MulDivPair(a, b \div 2, c)
             t == 2 * h[2] + (IF b % 2 = 1 THEN a ELSE 0)
         IN  <<2 * h[1] + t \div c, t % c>>

\* a * b / c rounded to the nearest integer, ties to even, for products beyond
\* the integer range
RoundMulDivWide(a, b, c) ==
    LET p == MulDivPair(a, b, c)
    IN  IF 2 * p[2] > c \/ (2 * p[2] = c /\ p[1] % 2 = 1) THEN p[1] + 1 ELSE p[1]

\* x * m / 10^6 for a factor m given in 1e-6, truncated
MulMicro[x \in Int, m \in Int] == MulDiv[x, m \div 1000, 1000] + MulDiv[x, m % 1000, 1000000]

(***************************************************************************)
(* stability_analysis.py: constants.                                       *)
(***************************************************************************)
\* DGMS minimum safety factor 1.5, in hundredths
DGMS_SAFETY_FACTOR_MIN == 150
\* DGMS minimum pillar width 3.0 m, in 1e-6 m
DGMS_PILLAR_WIDTH_MIN  == 3000000
\* CMRI adjustment 5, in 1e-3
CMRI_RMR_ADJUSTMENT    == 5000
\* vertical stress coefficient 0.028 MPa/m: 1e-4 MPa per tenth of a metre
IBE_STRESS_FACTOR      == 28
Q_JOINT_SET_NUMBER     == 9
Q_JOINT_ROUGHNESS      == 2
Q_JOINT_ALTERATION     == 1
\* Jw = 1.0 and SRF = 2.5, in tenths
Q_WATER_FACTOR         == 10
Q_STRESS_REDUCTION     == 25

(***************************************************************************)
(* stability_analysis.py: geotechnical formulae.                           *)
(***************************************************************************)
\* math.cos(math.radians(dip)) in 1e-6, dip in tenths of a degree
CosMicro(dip) ==
    CASE dip = 0 -> 1000000
      [] dip = 300 -> 866025
      [] dip = 305 -> 861629
      [] dip = 450 -> 707107
      [] dip = 455 -> 700909
      [] dip = 600 -> 500000
      [] dip = 605 -> 492424
      [] dip = 700 -> 342020
      [] dip = 705 -> 333807
      [] dip = 900 -> 0

\* calculate_rmr_standard with the rqd term subtracted
calculate_rmr_standard_falling(rqd) ==
    Max[0, Min[100000, 12000 + CMRI_RMR_ADJUSTMENT - 77 * rqd]]

\* RMR = clamp(0.77 * rqd + 12 + CMRI adjustment, 0, 100), in 1e-3
calculate_rmr_standard(rqd) ==
    Max[0, Min[100000, 77 * rqd + 12000 + CMRI_RMR_ADJUSTMENT]]

\* Q = (rqd / Jn) * (Jr / Ja) * (Jw / SRF), in 1e-6
calculate_q_standard(rqd) ==
    (rqd * Q_JOINT_ROUGHNESS * Q_WATER_FACTOR * 100000)
        \div (Q_JOINT_SET_NUMBER * Q_JOINT_ALTERATION * Q_STRESS_REDUCTION)

\* round(Q, 2), in hundredths
RoundedQ(rqd) ==
    RoundDiv[rqd * Q_JOINT_ROUGHNESS * Q_WATER_FACTOR * 10,
             Q_JOINT_SET_NUMBER * Q_JOINT_ALTERATION * Q_STRESS_REDUCTION]

\* N' = Q * A * B * C, in 1e-6; q_val in 1e-6, dip and depth in tenths
calculate_stability_number_standard(q_val, dip, depth) ==
    LET a == IF depth > 5000 THEN 100 ELSE 85                \* hundredths
        b == Max[210, Min[490, 210 + (dip - 200)]]            \* 1/700
        c == 1000000 - CosMicro(dip)                          \* 1e-6
    IN  MulMicro[MulDiv[MulDiv[q_val, a, 100], b, 700], c]

\* math.log10(n_prime) in 1e-6 at the values of n_prime the model evaluates it at
Log10Micro(n_prime) ==
    CASE n_prime = 10000001 -> 1000000
      [] n_prime = 20000000 -> 1301030
      [] n_prime = 100000000 -> 2000000

\* calculate_hydraulic_radius_design with the boundary 3 in the middle branch
calculate_hydraulic_radius_design_strict(n_prime) ==
    IF n_prime < 3000000 THEN 2500000 + n_prime \div 2
    ELSE IF n_prime <= 10000000 THEN 4000000 + MulDiv[n_prime, 8, 10]
    ELSE 7000000 + 5 * Log10Micro(n_prime)

\* Mathews-Potvin piecewise hydraulic radius, in 1e-6
calculate_hydraulic_radius_design(n_prime) ==
    IF n_prime <= 3000000 THEN 2500000 + n_prime \div 2
    ELSE IF n_prime <= 10000000 THEN 4000000 + MulDiv[n_prime, 8, 10]
    ELSE 7000000 + 5 * Log10Micro(n_prime)

\* k-ratio in 1e-6, depth in tenths
calculate_horizontal_k_ratio_standard(depth) ==
    LET k == IF depth < 3000 THEN 1500000
             ELSE 650000 + MulDiv[1350000000, 10, depth + 2000]
    IN  Min[2000000, Max[500000, k]]

\* UCS = 20 + 0.8 * rqd, in hundredths of a MPa
calculate_ucs_from_rqd_standard(rqd) == 2000 + 8 * rqd

\* GSI = rqd - 15 bounded to 20..85, in tenths
calculate_gsi_from_rqd_standard(rqd) == Max[200, Min[850, rqd - 150]]

\* s ** a of the Hoek-Brown criterion in 1e-9, with s = exp((gsi - 100) / 9)
\* and a = 0.5 + (1/6) * (exp(-gsi / 15) - exp(-20 / 3)); gsi in tenths
HoekBrownSPowA(gsi) ==
    CASE gsi = 200 -> 7962014
      [] gsi = 349 -> 23925283
      [] gsi = 350 -> 24081659
      [] gsi = 449 -> 44558444
      [] gsi = 450 -> 44825935
      [] gsi = 599 -> 106402653
      [] gsi = 600 -> 107008536
      [] gsi = 850 -> 434334301

\* rock mass strength sigma_ci * s ** a, in 1e-7 MPa
calculate_hoek_brown_strength_standard(rqd) ==
    LET sigma_ci == calculate_ucs_from_rqd_standard(rqd)
        gsi      == calculate_gsi_from_rqd_standard(rqd)
    IN  MulDiv[HoekBrownSPowA(gsi), sigma_ci, 10000]

\* 0.015 * math.log(ore_t + 1) in 1e-6, ore_t in tenths
ThicknessLnMicro(ore_t) ==
    CASE ore_t = 1 -> 1430
      [] ore_t = 3 -> 3935
      [] ore_t = 10 -> 10397
      [] ore_t = 1000 -> 69227

(***************************************************************************)
(* stability_analysis.py: main calculation functions.                      *)
(***************************************************************************)
StopeTypes ==
    {"Sublevel Stoping", "Room-and-Pillar", "Cut-and-Fill",
     "Shrinkage Stoping", "Vertical Crater Retreat"}

\* determine_stope_type with rule 2 lower-inclusive (45 <= dip)
determine_stope_type_inclusive(inputs) ==
    LET dip   == inputs["dip_angle"].v
        rqd   == inputs["rqd"].v
        depth == Get(inputs, "mining_depth", Num(3000)).v
    IN  IF dip > 600 /\ rqd >= 750 /\ depth < 8000 THEN "Vertical Crater Retreat"
        ELSE IF 450 <= dip /\ dip <= 600 /\ rqd >= 750 THEN "Sublevel Stoping"
        ELSE IF 300 < dip /\ dip <= 450 /\ rqd >= 600 THEN "Cut-and-Fill"
        ELSE IF dip <= 300 /\ rqd >= 500 THEN "Room-and-Pillar"
        ELSE IF dip > 500 /\ rqd >= 400 THEN "Shrinkage Stoping"
        ELSE "Shrinkage Stoping"

\* determine_stope_type without the default fallback of rule 6
determine_stope_type_no_default(inputs) ==
    LET dip   == inputs["dip_angle"].v
        rqd   == inputs["rqd"].v
        depth == Get(inputs, "mining_depth", Num(3000)).v
    IN  IF dip > 600 /\ rqd >= 750 /\ depth < 8000 THEN "Vertical Crater Retreat"
        ELSE IF 450 < dip /\ dip <= 600 /\ rqd >= 750 THEN "Sublevel Stoping"
        ELSE IF 300 < dip /\ dip <= 450 /\ rqd >= 600 THEN "Cut-and-Fill"
        ELSE IF dip <= 300 /\ rqd >= 500 THEN "Room-and-Pillar"
        ELSE IF dip > 500 /\ rqd >= 400 THEN "Shrinkage Stoping"
        ELSE "None"

determine_stope_type(inputs) ==
    LET dip   == inputs["dip_angle"].v
        rqd   == inputs["rqd"].v
        depth == Get(inputs, "mining_depth", Num(3000)).v
    IN  IF dip > 600 /\ rqd >= 750 /\ depth < 8000 THEN "Vertical Crater Retreat"
        ELSE IF 450 < dip /\ dip <= 600 /\ rqd >= 750 THEN "Sublevel Stoping"
        ELSE IF 300 < dip /\ dip <= 450 /\ rqd >= 600 THEN "Cut-and-Fill"
        ELSE IF dip <= 300 /\ rqd >= 500 THEN "Room-and-Pillar"
        ELSE IF dip > 500 /\ rqd >= 400 THEN "Shrinkage Stoping"
        ELSE "Shrinkage Stoping"

\* width_raw without the factor 2.0 on the design hydraulic radius
WidthRaw_no_factor(hr_design) == Max[DGMS_PILLAR_WIDTH_MIN, hr_design]

\* width_raw = max(DGMS_PILLAR_WIDTH_MIN, 2.0 * hr_design), in 1e-6 m
WidthRaw(hr_design) == Max[DGMS_PILLAR_WIDTH_MIN, 2 * hr_design]

\* safety_adj = max(0.85, min(1.0, DGMS_SAFETY_FACTOR_MIN / 1.5 * 0.9)), in hundredths
SafetyAdj == Max[85, Min[100, (DGMS_SAFETY_FACTOR_MIN * 90) \div 150]]

\* the geometry with the volume taken from length_raw and height_raw
StopeGeometry_raw_volume(width_raw) ==
    LET width      == RoundDiv[width_raw * SafetyAdj, 1000000]
        length     == RoundDiv[width * 10, 1]
        height     == RoundDiv[width * 8, 10]
        length_raw == (width_raw * 10) \div 10000
        height_raw == (width_raw * 8) \div 100000
    IN  [width  |-> width, length |-> length, height |-> height,
         volume |-> RoundMulDiv[width * length_raw, height_raw, 10000],
         hydraulic_radius |-> RoundDiv[width * height, 2 * (width + height)]]

\* StopeGeometry with length and height taken from the unadjusted width
StopeGeometry_unadjusted_length(width_raw) ==
    LET width  == RoundDiv[width_raw * SafetyAdj, 1000000]
        length == RoundDiv[width_raw * 10, 10000]
        height == RoundDiv[width_raw * 8, 100000]
    IN  [width  |-> width, length |-> length, height |-> height,
         volume |-> RoundMulDiv[width * length, height, 10000],
         hydraulic_radius |-> RoundDiv[width * height, 2 * (width + height)]]

\* StopeGeometry with length, height, volume and hydraulic radius computed
\* from the unrounded adjusted width (in 1e-6 m; in mm for the volume)
StopeGeometry_full_precision(width_raw) ==
    LET full   == (width_raw * SafetyAdj) \div 100
        mm     == RoundDiv[full, 1000]
    IN  [width  |-> RoundDiv[width_raw * SafetyAdj, 1000000],
         length |-> RoundDiv[full, 1000],
         height |-> RoundDiv[full * 8, 100000],
         volume |-> RoundMulDivWide(mm * mm, mm, 1250000),
         hydraulic_radius |-> RoundDiv[2 * full, 90000]]

\* width, length, height, volume and geometric hydraulic radius, in hundredths,
\* from width_raw in 1e-6 m
StopeGeometry(width_raw) ==
    LET width  == RoundDiv[width_raw * SafetyAdj, 1000000]
        length == RoundDiv[width * 10, 1]
        height == RoundDiv[width * 8, 10]
    IN  [width  |-> width, length |-> length, height |-> height,
         volume |-> RoundMulDiv[width * length, height, 10000],
         hydraulic_radius |-> RoundDiv[width * height, 2 * (width + height)]]

\* width_raw of calculate_stope_dimensions, in 1e-6 m
UnadjustedWidth(inputs) ==
    LET rqd       == Max[0, Min[1000, inputs["rqd"].v]]
        dip_angle == inputs["dip_angle"].v
        depth     == Get(inputs, "mining_depth", Num(3000)).v
        q_value   == calculate_q_standard(rqd)
        n_prime   == calculate_stability_number_standard(q_value, dip_angle, depth)
    IN  WidthRaw(calculate_hydraulic_radius_design(n_prime))

\* the record without the design hydraulic radius
calculate_stope_dimensions_single_radius(inputs) ==
    LET rqd        == Max[0, Min[1000, inputs["rqd"].v]]
        dip_angle  == inputs["dip_angle"].v
        depth      == Get(inputs, "mining_depth", Num(3000)).v
        stope_type == determine_stope_type(inputs)
        rmr        == calculate_rmr_standard(rqd)
        q_value    == calculate_q_standard(rqd)
        n_prime    == calculate_stability_number_standard(q_value, dip_angle, depth)
        hr_design  == calculate_hydraulic_radius_design(n_prime)
        g          == StopeGeometry(WidthRaw(hr_design))
    IN  [length |-> g.length,
         width  |-> g.width,
         height |-> g.height,
         volume |-> g.volume,
         hydraulic_radius |-> g.hydraulic_radius,
         stability_number |-> RoundDiv[n_prime, 10000],
         rmr |-> RoundDiv[rmr, 10],
         q_value |-> RoundedQ(rqd),
         stope_type |-> stope_type]

\* the record with the two hydraulic radii under each other's key
calculate_stope_dimensions_swapped_radius(inputs) ==
    LET rqd        == Max[0, Min[1000, inputs["rqd"].v]]
        dip_angle  == inputs["dip_angle"].v
        depth      == Get(inputs, "mining_depth", Num(3000)).v
        stope_type == determine_stope_type(inputs)
        rmr        == calculate_rmr_standard(rqd)
        q_value    == calculate_q_standard(rqd)
        n_prime    == calculate_stability_number_standard(q_value, dip_angle, depth)
        hr_design  == calculate_hydraulic_radius_design(n_prime)
        g          == StopeGeometry(WidthRaw(hr_design))
    IN  [length |-> g.length,
         width  |-> g.width,
         height |-> g.height,
         volume |-> g.volume,
         hydraulic_radius |-> RoundDiv[hr_design, 10000],
         design_hydraulic_radius |-> g.hydraulic_radius,
         stability_number |-> RoundDiv[n_prime, 10000],
         rmr |-> RoundDiv[rmr, 10],
         q_value |-> RoundedQ(rqd),
         stope_type |-> stope_type]

calculate_stope_dimensions(inputs) ==
    LET rqd        == Max[0, Min[1000, inputs["rqd"].v]]
        dip_angle  == inputs["dip_angle"].v
        depth      == Get(inputs, "mining_depth", Num(3000)).v
        stope_type == determine_stope_type(inputs)
        rmr        == calculate_rmr_standard(rqd)
        q_value    == calculate_q_standard(rqd)
        n_prime    == calculate_stability_number_standard(q_value, dip_angle, depth)
        hr_design  == calculate_hydraulic_radius_design(n_prime)
        g          == StopeGeometry(WidthRaw(hr_design))
    IN  [length |-> g.length,
         width  |-> g.width,
         height |-> g.height,
         volume |-> g.volume,
         hydraulic_radius |-> g.hydraulic_radius,
         design_hydraulic_radius |-> RoundDiv[hr_design, 10000],
         stability_number |-> RoundDiv[n_prime, 10000],
         rmr |-> RoundDiv[rmr, 10],
         q_value |-> RoundedQ(rqd),
         stope_type |-> stope_type]

\* the verdict with compliance taken from the unrounded ratio rock_s / sig_v
StabilityVerdict_unrounded(rock_s, sig_v) ==
    LET sf == RoundDiv[rock_s, sig_v * 10]
    IN  [safety_factor |-> sf,
         stability_class |->
             IF sf < DGMS_SAFETY_FACTOR_MIN THEN "Unstable (<DGMS)"
             ELSE IF sf < 200 THEN "Marginal"
             ELSE IF sf < 250 THEN "Stable"
             ELSE "Highly Stable",
         dgms_compliant |-> rock_s >= DGMS_SAFETY_FACTOR_MIN * sig_v * 10]

\* StabilityVerdict with upper-inclusive bands
StabilityVerdict_upper_inclusive(rock_s, sig_v) ==
    LET sf == RoundDiv[rock_s, sig_v * 10]
    IN  [safety_factor |-> sf,
         stability_class |->
             IF sf <= DGMS_SAFETY_FACTOR_MIN THEN "Unstable (<DGMS)"
             ELSE IF sf <= 200 THEN "Marginal"
             ELSE IF sf <= 250 THEN "Stable"
             ELSE "Highly Stable",
         dgms_compliant |-> sf >= DGMS_SAFETY_FACTOR_MIN]

\* sf = round(rock_s / sig_v, 2), its class and the DGMS verdict;
\* rock_s in 1e-7 MPa, sig_v in 1e-4 MPa, sf in hundredths
StabilityVerdict(rock_s, sig_v) ==
    LET sf == RoundDiv[rock_s, sig_v * 10]
    IN  [safety_factor |-> sf,
         stability_class |->
             IF sf < DGMS_SAFETY_FACTOR_MIN THEN "Unstable (<DGMS)"
             ELSE IF sf < 200 THEN "Marginal"
             ELSE IF sf < 250 THEN "Stable"
             ELSE "Highly Stable",
         dgms_compliant |-> sf >= DGMS_SAFETY_FACTOR_MIN]

\* depth clamped at 0 instead of 0.1
StabilityStresses_clamped_at_zero(inputs) ==
    LET depth   == Max[0, inputs["mining_depth"].v]
        sig_v   == depth * IBE_STRESS_FACTOR
        k_ratio == calculate_horizontal_k_ratio_standard(depth)
    IN  [depth |-> depth, sig_v |-> sig_v, k_ratio |-> k_ratio,
         sig_h |-> MulMicro[sig_v, k_ratio]]

\* lines 208-215: the clamped depth in tenths of a metre, the vertical and
\* horizontal stress in 1e-4 MPa and the k-ratio in 1e-6
StabilityStresses(inputs) ==
    LET depth   == Max[1, inputs["mining_depth"].v]
        sig_v   == depth * IBE_STRESS_FACTOR
        k_ratio == calculate_horizontal_k_ratio_standard(depth)
    IN  [depth |-> depth, sig_v |-> sig_v, k_ratio |-> k_ratio,
         sig_h |-> MulMicro[sig_v, k_ratio]]

\* assess_stability taking the depth at the floor of the stope
assess_stability_floor_depth(inputs, dims) ==
    LET floor    == [inputs EXCEPT !["mining_depth"] = Num(@.v + dims.height \div 10)]
        stresses == StabilityStresses(floor)
        sig_v   == stresses.sig_v
        k_ratio == stresses.k_ratio
        sig_h   == stresses.sig_h
        rqd     == Max[0, Min[1000, inputs["rqd"].v]]
        ore_t   == Max[1, Get(inputs, "ore_thickness", Num(10)).v]
        rock_0  == calculate_hoek_brown_strength_standard(rqd)
        rock_s  == rock_0 + MulMicro[rock_0, ThicknessLnMicro(ore_t)]
        verdict == StabilityVerdict(rock_s, sig_v)
    IN  [safety_factor     |-> verdict.safety_factor,
         stability_class   |-> verdict.stability_class,
         vertical_stress   |-> RoundDiv[sig_v, 100],
         horizontal_stress |-> RoundDiv[sig_h, 100],
         k_ratio           |-> RoundDiv[k_ratio, 10000],
         rock_strength     |-> RoundDiv[rock_s, 100000],
         dgms_compliant    |-> verdict.dgms_compliant]

\* the record assess_stability returns; rock_s / sig_v raises
\* ZeroDivisionError on a zero stress
assess_stability(inputs, dims) ==
    LET stresses == StabilityStresses(inputs)
        sig_v   == stresses.sig_v
        k_ratio == stresses.k_ratio
        sig_h   == stresses.sig_h
        rqd     == Max[0, Min[1000, inputs["rqd"].v]]
        ore_t   == Max[1, Get(inputs, "ore_thickness", Num(10)).v]
        rock_0  == calculate_hoek_brown_strength_standard(rqd)
        rock_s  == rock_0 + MulMicro[rock_0, ThicknessLnMicro(ore_t)]
        verdict == StabilityVerdict(rock_s, sig_v)
    IN  IF sig_v = 0 THEN [raised |-> "ZeroDivisionError"]
        ELSE [safety_factor     |-> verdict.safety_factor,
              stability_class   |-> verdict.stability_class,
              vertical_stress   |-> RoundDiv[sig_v, 100],
              horizontal_stress |-> RoundDiv[sig_h, 100],
              k_ratio           |-> RoundDiv[k_ratio, 10000],
              rock_strength     |-> RoundDiv[rock_s, 100000],
              dgms_compliant    |-> verdict.dgms_compliant]

(***************************************************************************)
(* cost_estimation.py.  An unrounded cost is [rupees, frac] with frac in   *)
(* 1/FracPerRupee of a rupee; a reported cost (round(x, 2)) is             *)
(* [rupees, paise].                                                        *)
(***************************************************************************)
FracPerRupee == 21 * 1000000

\* v * k / d rupees, for d a divisor of FracPerRupee
AmountOf(v, k, d) ==
    [rupees |-> MulDiv[v, k, d],
     frac   |-> (((v % d) * k) % d) * (FracPerRupee \div d)]

\* a * f / 10^4 for an amount a and a factor f given in 1e-4
ScaleAmount(a, f) ==
    LET whole == MulDiv[a.rupees, f, 10000]
        rest  == ((a.rupees % 10000) * f) % 10000          \* 1e-4 rupees
        part  == MulDiv[a.frac, f, 10000]                  \* frac units
        total == rest * (FracPerRupee \div 10000) + part
    IN  [rupees |-> whole + total \div FracPerRupee,
         frac   |-> total % FracPerRupee]

AddAmount(a, b) ==
    [rupees |-> a.rupees + b.rupees + (a.frac + b.frac) \div FracPerRupee,
     frac   |-> (a.frac + b.frac) % FracPerRupee]

\* round(x, 2) of an unrounded cost
RoundAmount(a) ==
    LET p == RoundDiv[a.frac, FracPerRupee \div 100]
    IN  [rupees |-> a.rupees + p \div 100, paise |-> p % 100]

\* a - b in paise, for reported costs
PaiseDiff(a, b) == (a.rupees - b.rupees) * 100 + (a.paise - b.paise)

\* the sum of reported costs
AddMoney(a, b) ==
    [rupees |-> a.rupees + b.rupees + (a.paise + b.paise) \div 100,
     paise  |-> (a.paise + b.paise) % 100]

\* volume / productivity * labor_rate; volume in hundredths of a m3
calculate_labor_cost(dimensions) ==
    LET volume       == dimensions.volume
        stope_type   == Get(dimensions, "stope_type", "Room-and-Pillar")
        productivity ==                        \* tenths
            IF stope_type = "Sublevel Stoping" THEN 12
            ELSE IF stope_type = "Cut-and-Fill" THEN 6
            ELSE IF stope_type = "Shrinkage Stoping" THEN 7
            ELSE IF stope_type = "Vertical Crater Retreat" THEN 14
            ELSE 8
        labor_rate   == 1200
    IN  AmountOf(volume, labor_rate \div 10, productivity)

\* volume * base_cost * factor
calculate_support_cost(inputs, dimensions) ==
    LET volume     == dimensions.volume
        rqd        == inputs["rqd"].v
        stope_type == Get(dimensions, "stope_type", "Room-and-Pillar")
        base_cost  == IF rqd < 500 THEN 480
                      ELSE IF rqd < 750 THEN 320
                      ELSE 180
        factor     ==                          \* tenths
            IF stope_type = "Room-and-Pillar" THEN 15
            ELSE IF stope_type = "Cut-and-Fill" THEN 8
            ELSE 6
    IN  AmountOf(volume, base_cost * factor, 1000)

\* volume * base_cost * (1 + depth / 1000), depth read from the dimensions
\* record with the default 300
calculate_ventilation_cost(dimensions) ==
    LET volume       == dimensions.volume
        base_cost    == 120
        depth_factor == 10000 + Get(dimensions, "mining_depth", 3000)   \* 1e-4
    IN  ScaleAmount(AmountOf(volume, base_cost, 100), depth_factor)

\* estimate_mining_costs with the total left without the ventilation cost
estimate_mining_costs_no_ventilation(inputs, dimensions) ==
    LET labor_cost       == calculate_labor_cost(dimensions)
        equipment_cost   == AmountOf(dimensions.volume, 62, 100)
        support_cost     == calculate_support_cost(inputs, dimensions)
        ventilation_cost == calculate_ventilation_cost(dimensions)
        total_cost       == AddAmount(AddAmount(labor_cost, equipment_cost),
                                      support_cost)
    IN  [labor       |-> RoundAmount(labor_cost),
         equipment   |-> RoundAmount(equipment_cost),
         support     |-> RoundAmount(support_cost),
         ventilation |-> RoundAmount(ventilation_cost),
         total       |-> RoundAmount(total_cost)]

\* the record estimate_mining_costs returns (its chart rendering is part of
\* the Cost action)
estimate_mining_costs(inputs, dimensions) ==
    LET labor_cost       == calculate_labor_cost(dimensions)
        equipment_cost   == AmountOf(dimensions.volume, 62, 100)
        support_cost     == calculate_support_cost(inputs, dimensions)
        ventilation_cost == calculate_ventilation_cost(dimensions)
        total_cost       == AddAmount(AddAmount(AddAmount(labor_cost, equipment_cost),
                                                support_cost), ventilation_cost)
    IN  [labor       |-> RoundAmount(labor_cost),
         equipment   |-> RoundAmount(equipment_cost),
         support     |-> RoundAmount(support_cost),
         ventilation |-> RoundAmount(ventilation_cost),
         total       |-> RoundAmount(total_cost)]

(***************************************************************************)
(* stope_calculations.py: the validation calculate_stope_design runs       *)
(* itself.                                                                 *)
(***************************************************************************)
REQUIRED_FIELDS == {"dip_angle", "ore_thickness", "rqd", "mining_depth"}

\* validate_inputs rejecting a mapping that holds a field it does not know
validate_inputs_strict(inputs) ==
    LET missing == {f \in REQUIRED_FIELDS :
                        f \notin DOMAIN inputs \/ inputs[f].kind = "none"}
    IN  IF missing # {} \/ "stope_type" \in DOMAIN inputs
        THEN [valid |-> FALSE, error |-> "Missing or invalid fields"]
        ELSE IF \E f \in REQUIRED_FIELDS : ~FloatParses(inputs[f])
        THEN [valid |-> FALSE, error |-> "All numerical inputs must be valid numbers."]
        ELSE IF ~FloatBetween(0, inputs["dip_angle"], 900)
        THEN [valid |-> FALSE, error |-> "Dip angle must be between 0 and 90 degrees."]
        ELSE IF ~FloatBetween(3, inputs["ore_thickness"], 1000)
        THEN [valid |-> FALSE, error |-> "Ore thickness must be between 0.3 and 100 meters."]
        ELSE IF ~FloatBetween(250, inputs["rqd"], 1000)
        THEN [valid |-> FALSE, error |-> "RQD must be between 25% and 100%."]
        ELSE IF ~FloatBetween(50, inputs["mining_depth"], 20000)
        THEN [valid |-> FALSE, error |-> "Mining depth must be between 5 and 2000 meters."]
        ELSE [valid |-> TRUE, error |-> "None"]

\* (valid, error); the first message does not list the missing fields
validate_inputs(inputs) ==
    LET missing == {f \in REQUIRED_FIELDS :
                        f \notin DOMAIN inputs \/ inputs[f].kind = "none"}
    IN  IF missing # {}
        THEN [valid |-> FALSE, error |-> "Missing or invalid fields"]
        ELSE IF \E f \in REQUIRED_FIELDS : ~FloatParses(inputs[f])
        THEN [valid |-> FALSE, error |-> "All numerical inputs must be valid numbers."]
        ELSE IF ~FloatBetween(0, inputs["dip_angle"], 900)
        THEN [valid |-> FALSE, error |-> "Dip angle must be between 0 and 90 degrees."]
        ELSE IF ~FloatBetween(3, inputs["ore_thickness"], 1000)
        THEN [valid |-> FALSE, error |-> "Ore thickness must be between 0.3 and 100 meters."]
        ELSE IF ~FloatBetween(250, inputs["rqd"], 1000)
        THEN [valid |-> FALSE, error |-> "RQD must be between 25% and 100%."]
        ELSE IF ~FloatBetween(50, inputs["mining_depth"], 20000)
        THEN [valid |-> FALSE, error |-> "Mining depth must be between 5 and 2000 meters."]
        ELSE [valid |-> TRUE, error |-> "None"]

\* the validated domain of calculate_stope_design: four finite numbers with
\* dip in [0, 90], ore thickness in [0.3, 100], rqd in [25, 100], depth in [5, 2000]
InCoreDomain(m) ==
    /\ REQUIRED_FIELDS \subseteq DOMAIN m
    /\ \A f \in REQUIRED_FIELDS : m[f].kind = "num"
    /\ 0 <= m["dip_angle"].v /\ m["dip_angle"].v <= 900
    /\ 3 <= m["ore_thickness"].v /\ m["ore_thickness"].v <= 1000
    /\ 250 <= m["rqd"].v /\ m["rqd"].v <= 1000
    /\ 50 <= m["mining_depth"].v /\ m["mining_depth"].v <= 20000

(***************************************************************************)
(* input_validation.py: the validator the callers in gui.py run first.     *)
(***************************************************************************)
\* MMR_MAX_DIP = 70, DGMS_MIN_RQD = 25, IBM_MAX_DEPTH = 2000, in tenths
MMR_MAX_DIP   == 700
DGMS_MIN_RQD  == 250
IBM_MAX_DEPTH == 20000

FloatFieldNames ==
    {"ore_thickness", "dip_angle", "rqd", "mining_depth", "ucs",
     "q_joint_set_number", "q_joint_roughness", "q_joint_alteration",
     "q_water_factor", "q_stress_reduction"}

\* float_fields: min and max in hundredths (field values are in tenths)
float_fields(field) ==
    CASE field = "ore_thickness"      -> [min |-> 30,   max |-> 10000, optional |-> FALSE]
      [] field = "dip_angle"          -> [min |-> 0,    max |-> MMR_MAX_DIP * 10, optional |-> FALSE]
      [] field = "rqd"                -> [min |-> DGMS_MIN_RQD * 10, max |-> 10000, optional |-> FALSE]
      [] field = "mining_depth"       -> [min |-> 500,  max |-> IBM_MAX_DEPTH * 10, optional |-> FALSE]
      [] field = "ucs"                -> [min |-> 1000, max |-> 30000, optional |-> TRUE]
      [] field = "q_joint_set_number" -> [min |-> 50,   max |-> 2000,  optional |-> FALSE]
      [] field = "q_joint_roughness"  -> [min |-> 50,   max |-> 400,   optional |-> FALSE]
      [] field = "q_joint_alteration" -> [min |-> 75,   max |-> 2000,  optional |-> FALSE]
      [] field = "q_water_factor"     -> [min |-> 5,    max |-> 100,   optional |-> FALSE]
      [] field = "q_stress_reduction" -> [min |-> 50,   max |-> 2000,  optional |-> FALSE]

\* the outcome of one pass of the loop over float_fields:
\* "skip" (optional and not given), "error", or "ok" (validated[field] = float(val))
FieldOutcome(inputs, field) ==
    LET limits == float_fields(field)
    IN  IF field \notin DOMAIN inputs
        THEN (IF limits.optional THEN "skip" ELSE "error")
        ELSE LET val == inputs[field]
             IN  IF val.kind \in {"none", "empty"}
                 THEN (IF limits.optional THEN "skip" ELSE "error")
                 ELSE IF ~FloatParses(val) THEN "error"
                 ELSE IF FloatLt([val EXCEPT !.v = @ * 10], limits.min) THEN "error"
                 ELSE IF FloatGt([val EXCEPT !.v = @ * 10], limits.max) THEN "error"
                 ELSE "ok"

\* input_validation.validate_inputs: [valid, data, errors]; errors holds the
\* fields the message has a line for; the warnings are left out, ore_type is
\* taken as not given ('generic')
input_validation_validate_inputs(inputs) ==
    LET errors    == {f \in FloatFieldNames : FieldOutcome(inputs, f) = "error"}
        accepted  == {f \in FloatFieldNames : FieldOutcome(inputs, f) = "ok"}
        validated == [f \in accepted \cup {"ore_type"} |->
                         IF f = "ore_type" THEN "generic" ELSE inputs[f]]
    IN  IF errors # {}
        THEN [valid |-> FALSE, data |-> << >>, errors |-> errors]
        ELSE [valid |-> TRUE, data |-> validated, errors |-> {}]

(***************************************************************************)
(* The mappings callers pass.                                              *)
(***************************************************************************)
FourFields(dip, thickness, rqd, depth) ==
    [f \in REQUIRED_FIELDS |->
        CASE f = "dip_angle"     -> dip
          [] f = "ore_thickness" -> thickness
          [] f = "rqd"           -> rqd
          [] f = "mining_depth"  -> depth]

\* every combination of the numeric input sets
NumericInputs ==
    {FourFields(Num(d), Num(t), Num(r), Num(z)) :
        d \in DipValues, t \in ThicknessValues, r \in RqdValues, z \in DepthValues}

\* one field of a valid mapping replaced by a value that is not a finite
\* number, or left out
BaseInputs == FourFields(Num(450), Num(10), Num(750), Num(3000))
Abnormal   == {NaN, PosInf, NegInf, Text, Empty, None}
AbnormalInputs ==
    {[BaseInputs EXCEPT ![f] = a] : f \in REQUIRED_FIELDS, a \in Abnormal}
    \cup {[g \in REQUIRED_FIELDS \ {f} |-> BaseInputs[g]] : f \in REQUIRED_FIELDS}

DirectInputs == NumericInputs \cup AbnormalInputs

\* the Q-system fields with the values of the constants of stability_analysis
QFields ==
    {"q_joint_set_number", "q_joint_roughness", "q_joint_alteration",
     "q_water_factor", "q_stress_reduction"}
WithQFields(m) ==
    [f \in (DOMAIN m) \cup QFields |->
        CASE f = "q_joint_set_number" -> Num(Q_JOINT_SET_NUMBER * 10)
          [] f = "q_joint_roughness"  -> Num(Q_JOINT_ROUGHNESS * 10)
          [] f = "q_joint_alteration" -> Num(Q_JOINT_ALTERATION * 10)
          [] f = "q_water_factor"     -> Num(Q_WATER_FACTOR)
          [] f = "q_stress_reduction" -> Num(Q_STRESS_REDUCTION)
          [] OTHER                    -> m[f]]

\* what a caller hands to input_validation.validate_inputs
RawInputs == DirectInputs \cup {WithQFields(m) : m \in DirectInputs}

(***************************************************************************)
(* State.                                                                  *)
(***************************************************************************)
VARIABLES
    pc,          \* position of the call of calculate_stope_design
    inputs,      \* the mapping object the call works on
    given,       \* the content of that mapping when the call started
    origin,      \* "validator": data of input_validation; "direct": passed as is
    repeat,      \* "no", or how the caller repeats its previous call
    stope_type,  \* locals of calculate_stope_design
    dimensions,
    stability,
    costs,
    result,      \* the record the call returned
    previous,    \* the record the caller's previous call returned
    calls,       \* number of calls started
    trace,       \* the positions the current call went through
    gui,         \* what the caller in gui.py shows
    executor,    \* 3D render tasks submitted to _3D_EXECUTOR and not yet run
    files,       \* reports/<file>: the call whose values the file shows, 0 if absent
    export,      \* the call of calculate_stope_design made by the PDF export thread
    checked,     \* what the caller handed to input_validation, and the outcome
    unit,        \* the last direct call of a function of stability_analysis.py
    render       \* the threads inside the render functions and the figures pyplot holds

vars == <<pc, inputs, given, origin, repeat, stope_type, dimensions, stability,
          costs, result, previous, calls, trace, gui, executor, files, export,
          checked,
          unit,
          render>>

Unset == [unset |-> TRUE]
NoInputs == [f \in {} |-> None]

SyncCharts ==
    {"stope_cross_sections.png", "stope_plan_view.png",
     "safety_factor_gauge.png", "stress_strength_comparison.png"}
CostCharts == {"cost_breakdown_chart.png", "cost_components_chart.png"}
ReportFiles == SyncCharts \cup CostCharts \cup {"stope_3d_isometric.png"}

\* the export thread outside a call, after n calls; its calls are numbered
\* -1, -2, ... to tell them from the calls of the GUI thread
ExportIdle(n) ==
    [pc |-> "Idle", n |-> n, inputs |-> NoInputs, given |-> NoInputs,
     stope_type |-> "None", dimensions |-> Unset, stability |-> Unset,
     costs |-> Unset, result |-> Unset]

\* no function has been called on its own
NoCall == [fn |-> "none"]

\* ThreadPoolExecutor(max_workers=1) with one more worker
max_workers_two == 1 + 1

\* _3D_EXECUTOR = ThreadPoolExecutor(max_workers=1)
max_workers == 1

\* the four charts generate_enhanced_stope_visualizations renders on the
\* calling thread, in the order of lines 257-260
Charts ==
    <<"stope_cross_sections.png", "stope_plan_view.png",
      "safety_factor_gauge.png", "stress_strength_comparison.png">>

\* no thread is inside a render function and pyplot holds no figure; figs is
\* pyplot's figure registry in its order (the last one is the current figure),
\* closes the <<closing thread, creating thread>> pairs of the figures closed
NoRender ==
    [main    |-> [req |-> 0, chart |-> 0, at |-> "idle"],
     workers |-> [w \in 1..max_workers |-> [task |-> 0, at |-> "idle"]],
     figs    |-> << >>,
     closes  |-> {}]

\* no mapping has been handed to input_validation.validate_inputs
NotChecked == [form |-> NoInputs, valid |-> FALSE, errors |-> {}]

Init ==
    /\ pc = "Idle"
    /\ inputs = NoInputs
    /\ given = NoInputs
    /\ origin = "none"
    /\ repeat = "no"
    /\ stope_type = "None"
    /\ dimensions = Unset
    /\ stability = Unset
    /\ costs = Unset
    /\ result = Unset
    /\ previous = Unset
    /\ calls = 0
    /\ trace = << >>
    /\ gui = "idle"
    /\ executor = << >>
    /\ files = [f \in ReportFiles |-> 0]
    /\ export = ExportIdle(0)
    /\ checked = NotChecked
    /\ unit = NoCall
    /\ render = NoRender

\* generate_enhanced_stope_visualizations rendering the 3D view on the calling
\* thread (the branch of ENABLE_ASYNC_3D = False)
generate_enhanced_stope_visualizations_sync_3d ==
    /\ executor' = executor
    /\ files' = [f \in ReportFiles |-> IF f \in CostCharts THEN files[f] ELSE calls]

\* generate_enhanced_stope_visualizations: submit the 3D render, then render
\* the four charts on the calling thread
generate_enhanced_stope_visualizations ==
    /\ executor' = Append(executor, calls)
    /\ files' = [f \in ReportFiles |-> IF f \in SyncCharts THEN calls ELSE files[f]]

\* entry of calculate_stope_design(m)
Enter(m, from, how) ==
    /\ pc' = "Received"
    /\ inputs' = m
    /\ given' = m
    /\ origin' = from
    /\ repeat' = how
    /\ calls' = calls + 1
    /\ trace' = <<"Received">>
    /\ stope_type' = "None"
    /\ dimensions' = Unset
    /\ stability' = Unset
    /\ costs' = Unset
    /\ result' = Unset

(***************************************************************************)
(* Callers.                                                                *)
(***************************************************************************)
\* gui.py, _calculate (and the same pattern in _export_pdf_report and
\* _export_summary_text): validate, then call calculate_stope_design on
\* validation['data'], or show the validation message
CalculateFrom(mappings) ==
    /\ UNCHANGED render
    /\ UNCHANGED unit
    /\ UNCHANGED export
    /\ pc = "Idle"
    /\ gui = "idle"
    /\ calls < MaxCalls
    /\ \E raw \in mappings :
         LET validation == input_validation_validate_inputs(raw)
         IN  /\ checked' = [form |-> raw, valid |-> validation.valid,
                            errors |-> validation.errors]
             /\ IF validation.valid
                THEN /\ Enter(validation.data, "validator", "no")
                     /\ gui' = "calculating"
                     /\ UNCHANGED <<previous, executor, files>>
                ELSE /\ gui' = "error"
                     /\ UNCHANGED <<pc, inputs, given, origin, repeat, stope_type,
                                    dimensions, stability, costs, result, previous,
                                    calls, trace, executor, files>>

Calculate == CalculateFrom(RawInputs)

\* gui.py, _show_results after the call returned: reads results['stope_type'],
\* results['dimensions'], results['stability'] and results['costs']
Show ==
    /\ UNCHANGED checked
    /\ UNCHANGED render
    /\ UNCHANGED unit
    /\ UNCHANGED export
    /\ pc \in {"Complete", "Error"}
    /\ gui = "calculating"
    /\ gui' = IF "error" \in DOMAIN result THEN "KeyError" ELSE "results"
    /\ UNCHANGED <<pc, inputs, given, origin, repeat, stope_type, dimensions,
                   stability, costs, result, previous, calls, trace, executor, files>>

\* a caller that passes its mapping to calculate_stope_design as it is
DirectCallFrom(mappings) ==
    /\ checked' = NotChecked
    /\ UNCHANGED render
    /\ UNCHANGED unit
    /\ UNCHANGED export
    /\ pc = "Idle"
    /\ gui = "idle"
    /\ calls < MaxCalls
    /\ \E m \in mappings : Enter(m, "direct", "no")
    /\ UNCHANGED <<previous, gui, executor, files>>

DirectCall == DirectCallFrom(DirectInputs)

\* the caller calls again with the mapping object of its previous call
RepeatSameObject ==
    /\ UNCHANGED checked
    /\ UNCHANGED render
    /\ UNCHANGED unit
    /\ UNCHANGED export
    /\ pc = "Complete"
    /\ gui # "calculating"
    /\ calls < MaxCalls
    /\ Enter(inputs, origin, "same_object")
    /\ previous' = result
    /\ UNCHANGED <<gui, executor, files>>

\* the caller calls again with a new mapping equal to the one it passed before
RepeatEqualCopy ==
    /\ UNCHANGED checked
    /\ UNCHANGED render
    /\ UNCHANGED unit
    /\ UNCHANGED export
    /\ pc = "Complete"
    /\ gui # "calculating"
    /\ calls < MaxCalls
    /\ Enter(given, origin, "equal_copy")
    /\ previous' = result
    /\ UNCHANGED <<gui, executor, files>>

\* the caller drops the result and the mapping, or dismisses the message box
\* of _show_error
Reset ==
    /\ \/ pc \in {"Complete", "Error"} /\ gui # "calculating"
       \/ pc = "Idle" /\ gui = "error"
    /\ calls < MaxCalls
    /\ checked' = NotChecked
    /\ UNCHANGED render
    /\ UNCHANGED unit
    /\ UNCHANGED export
    /\ pc' = "Idle"
    /\ inputs' = NoInputs
    /\ given' = NoInputs
    /\ origin' = "none"
    /\ repeat' = "no"
    /\ stope_type' = "None"
    /\ dimensions' = Unset
    /\ stability' = Unset
    /\ costs' = Unset
    /\ result' = Unset
    /\ previous' = Unset
    /\ trace' = << >>
    /\ gui' = "idle"
    /\ UNCHANGED <<calls, executor, files>>

(***************************************************************************)
(* stope_calculations.py: calculate_stope_design, one action per           *)
(* statement group.                                                        *)
(***************************************************************************)
\* lines 43-49 with the type stored in the mapping before the validity test
Classify_storing_first ==
    /\ UNCHANGED checked
    /\ UNCHANGED render
    /\ UNCHANGED unit
    /\ UNCHANGED export
    /\ pc = "Received"
    /\ LET v == validate_inputs(inputs)
       IN  IF ~v.valid
           THEN /\ pc' = "Error"
                /\ result' = [error |-> v.error]
                /\ inputs' = Put(inputs, "stope_type", "None")
                /\ UNCHANGED stope_type
           ELSE /\ pc' = "Classified"
                /\ stope_type' = determine_stope_type(inputs)
                /\ inputs' = Put(inputs, "stope_type", stope_type')
                /\ UNCHANGED result
    /\ trace' = Append(trace, pc')
    /\ UNCHANGED <<given, origin, repeat, dimensions, stability, costs, previous,
                   calls, gui, executor, files>>

\* lines 43-49: validate; classify and store the type in the mapping
Classify ==
    /\ UNCHANGED checked
    /\ UNCHANGED render
    /\ UNCHANGED unit
    /\ UNCHANGED export
    /\ pc = "Received"
    /\ LET v == validate_inputs(inputs)
       IN  IF ~v.valid
           THEN /\ pc' = "Error"
                /\ result' = [error |-> v.error]
                /\ UNCHANGED <<inputs, stope_type>>
           ELSE /\ pc' = "Classified"
                /\ stope_type' = determine_stope_type(inputs)
                /\ inputs' = Put(inputs, "stope_type", stope_type')
                /\ UNCHANGED result
    /\ trace' = Append(trace, pc')
    /\ UNCHANGED <<given, origin, repeat, dimensions, stability, costs, previous,
                   calls, gui, executor, files>>

\* line 52
Size ==
    /\ UNCHANGED checked
    /\ UNCHANGED render
    /\ UNCHANGED unit
    /\ UNCHANGED export
    /\ pc = "Classified"
    /\ dimensions' = calculate_stope_dimensions(inputs)
    /\ pc' = "Sized"
    /\ trace' = Append(trace, pc')
    /\ UNCHANGED <<inputs, given, origin, repeat, stope_type, stability, costs,
                   result, previous, calls, gui, executor, files>>

\* line 55 going on to line 60 without the cost step
Assess_skipping_cost ==
    /\ UNCHANGED checked
    /\ UNCHANGED render
    /\ UNCHANGED unit
    /\ UNCHANGED export
    /\ pc = "Sized"
    /\ stability' = assess_stability(inputs, dimensions)
    /\ generate_enhanced_stope_visualizations
    /\ pc' = "Costed"
    /\ trace' = Append(trace, pc')
    /\ UNCHANGED <<inputs, given, origin, repeat, stope_type, dimensions, costs,
                   result, previous, calls, gui>>

\* line 55: assess_stability, which renders the visualizations itself
Assess ==
    /\ UNCHANGED checked
    /\ UNCHANGED render
    /\ UNCHANGED unit
    /\ UNCHANGED export
    /\ pc = "Sized"
    /\ stability' = assess_stability(inputs, dimensions)
    /\ generate_enhanced_stope_visualizations
    /\ pc' = "Assessed"
    /\ trace' = Append(trace, pc')
    /\ UNCHANGED <<inputs, given, origin, repeat, stope_type, dimensions, costs,
                   result, previous, calls, gui>>

\* line 58: estimate_mining_costs, which renders the two cost charts
Cost ==
    /\ UNCHANGED checked
    /\ UNCHANGED render
    /\ UNCHANGED unit
    /\ UNCHANGED export
    /\ pc = "Assessed"
    /\ costs' = estimate_mining_costs(inputs, dimensions)
    /\ files' = [f \in ReportFiles |-> IF f \in CostCharts THEN calls ELSE files[f]]
    /\ pc' = "Costed"
    /\ trace' = Append(trace, pc')
    /\ UNCHANGED <<inputs, given, origin, repeat, stope_type, dimensions, stability,
                   result, previous, calls, gui, executor>>

\* lines 60-76: render the visualizations again, store the type in the
\* dimensions record, return the aggregate record
Return ==
    /\ UNCHANGED checked
    /\ UNCHANGED render
    /\ UNCHANGED unit
    /\ UNCHANGED export
    /\ pc = "Costed"
    /\ generate_enhanced_stope_visualizations
    /\ dimensions' = Put(dimensions, "stope_type", stope_type)
    /\ result' = [stope_type |-> stope_type,
                  dimensions |-> dimensions',
                  stability  |-> stability,
                  costs      |-> costs]
    /\ pc' = "Complete"
    /\ trace' = Append(trace, pc')
    /\ UNCHANGED <<inputs, given, origin, repeat, stope_type, stability, costs,
                   previous, calls, gui>>

\* stability_analysis.py: the single worker of _3D_EXECUTOR runs the oldest
\* submitted task, _generate_3d_isometric_view
Worker3D ==
    /\ UNCHANGED checked
    /\ UNCHANGED render
    /\ UNCHANGED unit
    /\ UNCHANGED export
    /\ executor # << >>
    /\ files' = [files EXCEPT !["stope_3d_isometric.png"] = Head(executor)]
    /\ executor' = Tail(executor)
    /\ UNCHANGED <<pc, inputs, given, origin, repeat, stope_type, dimensions,
                   stability, costs, result, previous, calls, trace, gui>>

Next ==
    \/ Calculate
    \/ Show
    \/ DirectCall
    \/ RepeatSameObject
    \/ RepeatEqualCopy
    \/ Reset
    \/ Classify
    \/ Size
    \/ Assess
    \/ Cost
    \/ Return
    \/ Worker3D

Spec == Init /\ [][Next]_vars

\* the callers passing mappings of every branch of the classification and of
\* both validators only
LiveInputs ==
    {FourFields(Num(d), Num(10), Num(r), Num(z)) :
        d \in {0, 450, 605, 905}, r \in {250, 750}, z \in {50, 8000}}
    \cup {[BaseInputs EXCEPT ![f] = a] :
            f \in {"dip_angle", "mining_depth"}, a \in {NaN, Text}}

LiveCalculate == CalculateFrom(LiveInputs \cup {WithQFields(m) : m \in LiveInputs})

LiveDirectCall == DirectCallFrom(LiveInputs)

LiveNext ==
    \/ LiveCalculate
    \/ Show
    \/ LiveDirectCall
    \/ RepeatSameObject
    \/ RepeatEqualCopy
    \/ Reset
    \/ Classify
    \/ Size
    \/ Assess
    \/ Cost
    \/ Return
    \/ Worker3D

\* a started call runs to its return statement, and the worker thread runs
FairSpec ==
    /\ Init
    /\ [][LiveNext]_vars
    /\ WF_vars(Classify \/ Size \/ Assess \/ Cost \/ Return)
    /\ WF_vars(Worker3D)

(***************************************************************************)
(* gui.py, _export_pdf_report: a second thread validates the form and      *)
(* calls calculate_stope_design on its own validated data, while the GUI   *)
(* thread may be inside a call of its own.  The threads share the files    *)
(* under reports/ and the executor; each has its own mapping and locals.   *)
(***************************************************************************)
\* number of calls the export thread makes in a run
MaxExports == 1

\* the record calculate_stope_design(m) returns when nothing else runs
design_alone(m) ==
    LET v == validate_inputs(m)
    IN  IF ~v.valid THEN [error |-> v.error]
        ELSE LET type == determine_stope_type(m)
                 data == Put(m, "stope_type", type)
                 dims == calculate_stope_dimensions(data)
             IN  [stope_type |-> type,
                  dimensions |-> Put(dims, "stope_type", type),
                  stability  |-> assess_stability(data, dims),
                  costs      |-> estimate_mining_costs(data, dims)]

\* run_pdf_export, lines 391-395: validate, enter calculate_stope_design
ExportStartFrom(mappings) ==
    /\ UNCHANGED checked
    /\ UNCHANGED render
    /\ UNCHANGED unit
    /\ export.pc = "Idle"
    /\ export.n < MaxExports
    /\ \E raw \in mappings :
         LET validation == input_validation_validate_inputs(raw)
         IN  IF validation.valid
             THEN export' = [ExportIdle(export.n + 1) EXCEPT
                                !.pc = "Received",
                                !.inputs = validation.data,
                                !.given = validation.data]
             ELSE export' = [export EXCEPT !.n = @ + 1]
    /\ UNCHANGED <<pc, inputs, given, origin, repeat, stope_type, dimensions,
                   stability, costs, result, previous, calls, trace, gui,
                   executor, files>>

\* stope_calculations.py lines 43-49 on the export thread
ExportClassify ==
    /\ UNCHANGED checked
    /\ UNCHANGED render
    /\ UNCHANGED unit
    /\ export.pc = "Received"
    /\ LET v == validate_inputs(export.inputs)
       IN  IF ~v.valid
           THEN export' = [export EXCEPT !.pc = "Error",
                                         !.result = [error |-> v.error]]
           ELSE export' = [export EXCEPT
                              !.pc = "Classified",
                              !.stope_type = determine_stope_type(export.inputs),
                              !.inputs = Put(export.inputs, "stope_type",
                                             determine_stope_type(export.inputs))]
    /\ UNCHANGED <<pc, inputs, given, origin, repeat, stope_type, dimensions,
                   stability, costs, result, previous, calls, trace, gui,
                   executor, files>>

\* line 52 on the export thread
ExportSize ==
    /\ UNCHANGED checked
    /\ UNCHANGED render
    /\ UNCHANGED unit
    /\ export.pc = "Classified"
    /\ export' = [export EXCEPT
                     !.pc = "Sized",
                     !.dimensions = calculate_stope_dimensions(export.inputs)]
    /\ UNCHANGED <<pc, inputs, given, origin, repeat, stope_type, dimensions,
                   stability, costs, result, previous, calls, trace, gui,
                   executor, files>>

\* line 55 on the export thread
ExportAssess ==
    /\ UNCHANGED checked
    /\ UNCHANGED render
    /\ UNCHANGED unit
    /\ export.pc = "Sized"
    /\ export' = [export EXCEPT
                     !.pc = "Assessed",
                     !.stability = assess_stability(export.inputs, export.dimensions)]
    /\ executor' = Append(executor, 0 - export.n)
    /\ files' = [f \in ReportFiles |->
                    IF f \in SyncCharts THEN 0 - export.n ELSE files[f]]
    /\ UNCHANGED <<pc, inputs, given, origin, repeat, stope_type, dimensions,
                   stability, costs, result, previous, calls, trace, gui>>

\* line 58 with the dimensions read from a record the threads share
ExportCost_shared_dimensions ==
    /\ UNCHANGED checked
    /\ UNCHANGED render
    /\ UNCHANGED unit
    /\ export.pc = "Assessed"
    /\ export' = [export EXCEPT
                     !.pc = "Costed",
                     !.costs = estimate_mining_costs(export.inputs,
                                  IF dimensions = Unset THEN export.dimensions
                                  ELSE dimensions)]
    /\ files' = [f \in ReportFiles |->
                    IF f \in CostCharts THEN 0 - export.n ELSE files[f]]
    /\ UNCHANGED <<pc, inputs, given, origin, repeat, stope_type, dimensions,
                   stability, costs, result, previous, calls, trace, gui,
                   executor>>

\* line 58 on the export thread
ExportCost ==
    /\ UNCHANGED checked
    /\ UNCHANGED render
    /\ UNCHANGED unit
    /\ export.pc = "Assessed"
    /\ export' = [export EXCEPT
                     !.pc = "Costed",
                     !.costs = estimate_mining_costs(export.inputs, export.dimensions)]
    /\ files' = [f \in ReportFiles |->
                    IF f \in CostCharts THEN 0 - export.n ELSE files[f]]
    /\ UNCHANGED <<pc, inputs, given, origin, repeat, stope_type, dimensions,
                   stability, costs, result, previous, calls, trace, gui,
                   executor>>

\* lines 60-76 on the export thread
ExportReturn ==
    /\ UNCHANGED checked
    /\ UNCHANGED render
    /\ UNCHANGED unit
    /\ export.pc = "Costed"
    /\ export' = [export EXCEPT
                     !.pc = "Complete",
                     !.dimensions = Put(export.dimensions, "stope_type",
                                        export.stope_type),
                     !.result = [stope_type |-> export.stope_type,
                                 dimensions |-> Put(export.dimensions, "stope_type",
                                                    export.stope_type),
                                 stability  |-> export.stability,
                                 costs      |-> export.costs]]
    /\ executor' = Append(executor, 0 - export.n)
    /\ files' = [f \in ReportFiles |->
                    IF f \in SyncCharts THEN 0 - export.n ELSE files[f]]
    /\ UNCHANGED <<pc, inputs, given, origin, repeat, stope_type, dimensions,
                   stability, costs, result, previous, calls, trace, gui>>

\* run_pdf_export, lines 396-405: the report is written and the thread ends
ExportDone ==
    /\ UNCHANGED checked
    /\ UNCHANGED render
    /\ UNCHANGED unit
    /\ export.pc \in {"Complete", "Error"}
    /\ export' = ExportIdle(export.n)
    /\ UNCHANGED <<pc, inputs, given, origin, repeat, stope_type, dimensions,
                   stability, costs, result, previous, calls, trace, gui,
                   executor, files>>

\* the form contents of the concurrent runs: one mapping for each stope type
\* and one with a NaN, each with the Q fields
ConcInputs ==
    {WithQFields(m) : m \in
        {FourFields(Num(605), Num(10), Num(750), Num(50)),
         FourFields(Num(600), Num(10), Num(750), Num(8000)),
         FourFields(Num(450), Num(10), Num(750), Num(3000)),
         FourFields(Num(0),   Num(10), Num(750), Num(3000)),
         FourFields(Num(450), Num(10), Num(250), Num(3000)),
         [BaseInputs EXCEPT !["mining_depth"] = NaN]}}

ConcCalculate == CalculateFrom(ConcInputs)

ExportStart == ExportStartFrom(ConcInputs)

ConcNext ==
    \/ ConcCalculate
    \/ Show
    \/ Reset
    \/ Classify
    \/ Size
    \/ Assess
    \/ Cost
    \/ Return
    \/ Worker3D
    \/ ExportStart
    \/ ExportClassify
    \/ ExportSize
    \/ ExportAssess
    \/ ExportCost
    \/ ExportReturn
    \/ ExportDone

\* the GUI thread and the export thread, interleaved statement group by
\* statement group
ConcSpec == Init /\ [][ConcNext]_vars

(***************************************************************************)
(* A caller that varies one field between two calls, to compare the two    *)
(* designs.                                                                *)
(***************************************************************************)
\* the values the input sets give a field
FieldValues(f) ==
    CASE f = "dip_angle"     -> DipValues
      [] f = "ore_thickness" -> ThicknessValues
      [] f = "rqd"           -> RqdValues
      [] f = "mining_depth"  -> DepthValues

\* the caller calls again with an equal mapping but for one field, which it
\* raises within the validated domain; repeat names the field
RepeatRaised ==
    /\ pc = "Complete"
    /\ gui # "calculating"
    /\ calls < MaxCalls
    /\ \E f \in REQUIRED_FIELDS : \E v \in FieldValues(f) :
         /\ v > given[f].v
         /\ InCoreDomain([given EXCEPT ![f] = Num(v)])
         /\ Enter([given EXCEPT ![f] = Num(v)], origin, f)
    /\ previous' = result
    /\ UNCHANGED <<gui, executor, files, export, checked>>
    /\ UNCHANGED render
    /\ UNCHANGED unit

\* the mappings of the validated domain with an ore thickness of 1 m or 100 m
SweepInputs ==
    {m \in NumericInputs : InCoreDomain(m) /\ m["ore_thickness"].v \in {10, 1000}}

SweepDirectCall == DirectCallFrom(SweepInputs)

SweepNext ==
    \/ SweepDirectCall
    \/ RepeatRaised
    \/ Classify
    \/ Size
    \/ Assess
    \/ Cost
    \/ Return

\* pairs of designs that differ in one field
SweepSpec == Init /\ [][SweepNext]_vars

(***************************************************************************)
(* Functions of stability_analysis.py called on their own, outside         *)
(* calculate_stope_design, on arguments the validators would not pass on.  *)
(***************************************************************************)
\* mining depths in tenths of a metre: negative, zero, below and at the clamp,
\* and inside the validated domain
UnitDepthValues == {0 - 1000, 0 - 1, 0, 1, 2, 50, 3000, 20000}
UnitRqdValues == {0 - 50, 250, 500, 750, 1000, 1200}
UnitThicknessValues == {0, 3, 10, 1000}

\* the mappings handed to assess_stability
AssessInputs ==
    {FourFields(Num(450), Num(t), Num(r), Num(z)) :
        t \in UnitThicknessValues, r \in UnitRqdValues, z \in UnitDepthValues}

\* stability numbers N' in 1e-6: negative, zero, around 3 and 10, and beyond
NPrimeValues ==
    {0 - 1000000, 0, 1, 2999999, 3000000, 3000001, 6500000, 9999999,
     10000000, 10000001, 20000000, 100000000}

\* assess_stability(m, dims) on the dimensions of m; a returned call has
\* rendered the visualizations (line 228), a raised one has not
CallAssessStability ==
    /\ pc = "Idle"
    /\ calls < MaxCalls
    /\ \E m \in AssessInputs :
         LET out == assess_stability(m, calculate_stope_dimensions(m))
         IN  /\ unit' = [fn |-> "assess_stability", args |-> m,
                         stresses |-> StabilityStresses(m), out |-> out]
             /\ IF "raised" \in DOMAIN out
                THEN UNCHANGED <<executor, files>>
                ELSE /\ executor' = Append(executor, calls + 1)
                     /\ files' = [f \in ReportFiles |->
                                     IF f \in SyncCharts THEN calls + 1 ELSE files[f]]
    /\ calls' = calls + 1
    /\ UNCHANGED <<pc, inputs, given, origin, repeat, stope_type, dimensions,
                   stability, costs, result, previous, trace, gui, export, checked,
                   render>>

\* calculate_hydraulic_radius_design(n_prime)
CallHydraulicRadiusDesign ==
    /\ pc = "Idle"
    /\ \E n_prime \in NPrimeValues :
         unit' = [fn |-> "calculate_hydraulic_radius_design", args |-> n_prime,
                  out |-> calculate_hydraulic_radius_design(n_prime)]
    /\ UNCHANGED <<pc, inputs, given, origin, repeat, stope_type, dimensions,
                   stability, costs, result, previous, calls, trace, gui, executor,
                   files, export, checked, render>>

UnitNext ==
    \/ CallAssessStability
    \/ CallHydraulicRadiusDesign
    \/ Worker3D

UnitSpec == Init /\ [][UnitNext]_vars

(***************************************************************************)
(* stability_analysis.py: generate_enhanced_stope_visualizations and the   *)
(* worker of _3D_EXECUTOR, one action per pyplot call.  Each render        *)
(* function creates its figure with plt.figure or plt.subplots, saves it   *)
(* with _save_fig and ends with plt.close(), which closes the current      *)
(* figure of the process.                                                  *)
(***************************************************************************)
\* plt.close() by thread t: the last figure of the registry is removed
PltClose(t) ==
    IF render.figs = << >>
    THEN [figs |-> << >>, closes |-> render.closes]
    ELSE [figs   |-> SubSeq(render.figs, 1, Len(render.figs) - 1),
          closes |-> render.closes \cup {<<t, render.figs[Len(render.figs)].by>>}]

\* lines 246-253: a request enters generate_enhanced_stope_visualizations and
\* submits its 3D render
RenderRequest ==
    /\ pc = "Idle"
    /\ render.main.at = "idle"
    /\ calls < MaxCalls
    /\ calls' = calls + 1
    /\ executor' = Append(executor, calls + 1)
    /\ render' = [render EXCEPT !.main = [req |-> calls + 1, chart |-> 1, at |-> "create"]]
    /\ UNCHANGED <<pc, inputs, given, origin, repeat, stope_type, dimensions,
                   stability, costs, result, previous, trace, gui, files, export,
                   checked, unit>>

\* lines 436, 519, 622, 707: fig = plt.subplots(...) of the next chart
MainCreate ==
    /\ render.main.at = "create"
    /\ render' = [render EXCEPT
                     !.figs = Append(@, [by |-> "main", req |-> render.main.req,
                                         chart |-> render.main.chart]),
                     !.main.at = "save"]
    /\ UNCHANGED <<pc, inputs, given, origin, repeat, stope_type, dimensions,
                   stability, costs, result, previous, calls, trace, gui, executor,
                   files, export, checked, unit>>

\* lines 514, 617, 702, 758: _save_fig(fig, 'reports/<chart>')
MainSave ==
    /\ render.main.at = "save"
    /\ files' = [files EXCEPT ![Charts[render.main.chart]] = render.main.req]
    /\ render' = [render EXCEPT !.main.at = "close"]
    /\ UNCHANGED <<pc, inputs, given, origin, repeat, stope_type, dimensions,
                   stability, costs, result, previous, calls, trace, gui, executor,
                   export, checked, unit>>

\* lines 515, 618, 703, 759: plt.close(), then the next chart or the return
MainClose ==
    /\ render.main.at = "close"
    /\ render' = [render EXCEPT
                     !.figs = PltClose("main").figs,
                     !.closes = PltClose("main").closes,
                     !.main = IF render.main.chart < Len(Charts)
                              THEN [@ EXCEPT !.chart = @ + 1, !.at = "create"]
                              ELSE [req |-> 0, chart |-> 0, at |-> "idle"]]
    /\ UNCHANGED <<pc, inputs, given, origin, repeat, stope_type, dimensions,
                   stability, costs, result, previous, calls, trace, gui, executor,
                   files, export, checked, unit>>

\* an idle worker of the executor takes the oldest submitted task,
\* _generate_3d_isometric_view
WorkerTake ==
    /\ executor # << >>
    /\ \E w \in DOMAIN render.workers :
         /\ render.workers[w].at = "idle"
         /\ render' = [render EXCEPT !.workers[w] = [task |-> Head(executor), at |-> "create"]]
    /\ executor' = Tail(executor)
    /\ UNCHANGED <<pc, inputs, given, origin, repeat, stope_type, dimensions,
                   stability, costs, result, previous, calls, trace, gui, files,
                   export, checked, unit>>

\* line 273: fig = plt.figure(figsize=(14, 10))
WorkerCreate ==
    /\ \E w \in DOMAIN render.workers :
         /\ render.workers[w].at = "create"
         /\ render' = [render EXCEPT
                          !.figs = Append(@, [by |-> "worker",
                                              req |-> render.workers[w].task,
                                              chart |-> 0]),
                          !.workers[w].at = "save"]
    /\ UNCHANGED <<pc, inputs, given, origin, repeat, stope_type, dimensions,
                   stability, costs, result, previous, calls, trace, gui, executor,
                   files, export, checked, unit>>

\* line 316: _save_fig(fig, 'reports/stope_3d_isometric.png')
WorkerSave ==
    /\ \E w \in DOMAIN render.workers :
         /\ render.workers[w].at = "save"
         /\ files' = [files EXCEPT !["stope_3d_isometric.png"] = render.workers[w].task]
         /\ render' = [render EXCEPT !.workers[w].at = "close"]
    /\ UNCHANGED <<pc, inputs, given, origin, repeat, stope_type, dimensions,
                   stability, costs, result, previous, calls, trace, gui, executor,
                   export, checked, unit>>

\* line 317: plt.close(); the task is done
WorkerClose ==
    /\ \E w \in DOMAIN render.workers :
         /\ render.workers[w].at = "close"
         /\ render' = [render EXCEPT
                          !.figs = PltClose("worker").figs,
                          !.closes = PltClose("worker").closes,
                          !.workers[w] = [task |-> 0, at |-> "idle"]]
    /\ UNCHANGED <<pc, inputs, given, origin, repeat, stope_type, dimensions,
                   stability, costs, result, previous, calls, trace, gui, executor,
                   files, export, checked, unit>>

RenderNext ==
    \/ RenderRequest
    \/ MainCreate
    \/ MainSave
    \/ MainClose
    \/ WorkerTake
    \/ WorkerCreate
    \/ WorkerSave
    \/ WorkerClose

RenderSpec == Init /\ [][RenderNext]_vars

(***************************************************************************)
(* Properties.                                                             *)
(***************************************************************************)
Classified == pc \in {"Classified", "Sized", "Assessed", "Costed", "Complete"}
Sized      == pc \in {"Sized", "Assessed", "Costed", "Complete"}
Assessed   == pc \in {"Assessed", "Costed", "Complete"}
Costed     == pc \in {"Costed", "Complete"}

\* C1: the stope type of every classified input is the one the six-rule
\* decision table gives, first match winning, with upper-inclusive dip
\* thresholds; dip = 45 with rqd = 75 is Cut-and-Fill, not Sublevel Stoping.
C1_DecisionTable ==
    Classified =>
        LET dip   == given["dip_angle"].v
            rqd   == given["rqd"].v
            depth == given["mining_depth"].v
            r1    == dip > 600 /\ rqd >= 750 /\ depth < 8000
            r2    == 450 < dip /\ dip <= 600 /\ rqd >= 750
            r3    == 300 < dip /\ dip <= 450 /\ rqd >= 600
            r4    == dip <= 300 /\ rqd >= 500
        IN  /\ r1 => stope_type = "Vertical Crater Retreat"
            /\ ~r1 /\ r2 => stope_type = "Sublevel Stoping"
            /\ ~r1 /\ ~r2 /\ r3 => stope_type = "Cut-and-Fill"
            /\ ~r1 /\ ~r2 /\ ~r3 /\ r4 => stope_type = "Room-and-Pillar"
            /\ ~r1 /\ ~r2 /\ ~r3 /\ ~r4 => stope_type = "Shrinkage Stoping"
            /\ dip = 450 /\ rqd = 750 => stope_type = "Cut-and-Fill"

C1_Witness ==
    /\ pc = "Classified"
    /\ given["dip_angle"].v = 450
    /\ given["rqd"].v = 750
    /\ stope_type = "Cut-and-Fill"

\* C2: classification is total on the validated domain: a call with an input
\* of the domain is never refused, and the type it gets is one of the five
\* method names.
C2_Total ==
    /\ Classified => stope_type \in StopeTypes
    /\ pc = "Error" => ~InCoreDomain(given)

C2_Witness ==
    /\ pc = "Classified"
    /\ given["dip_angle"].v = 455
    /\ given["rqd"].v = 250
    /\ stope_type = "Shrinkage Stoping"

\* C3: the reported width is at least 3.0 m.
C3_MinWidth == Sized => dimensions.width >= 300

C3_Witness ==
    /\ pc = "Sized"
    /\ given["dip_angle"].v = 0
    /\ dimensions.width = 450

\* C4: in every result record the volume is the 2-decimal rounding of the
\* product of the reported width, length and height.
C4_Volume ==
    pc = "Complete" =>
        LET d == result.dimensions
        IN  d.volume = RoundMulDiv[d.width * d.length, d.height, 10000]

C4_Witness ==
    /\ pc = "Complete"
    /\ LET d == result.dimensions
       IN  (((d.width * d.length) % 10000) * d.height) % 10000 # 0

\* C5: dgms_compliant holds exactly when the reported safety factor is at
\* least 1.5.
C5_Compliance ==
    Assessed => (stability.dgms_compliant <=> stability.safety_factor >= 150)

C5_Witness ==
    /\ pc = "Assessed"
    /\ stability.safety_factor = 150
    /\ stability.dgms_compliant

\* C6: the reported total differs from the sum of the four reported
\* components by at most 0.01 INR.
C6_Additivity ==
    Costed =>
        LET sum  == AddMoney(AddMoney(costs.labor, costs.equipment),
                             AddMoney(costs.support, costs.ventilation))
            diff == PaiseDiff(costs.total, sum)
        IN  -1 <= diff /\ diff <= 1

C6_Witness ==
    /\ pc = "Costed"
    /\ dimensions.stope_type = "Vertical Crater Retreat"
    /\ costs.labor.paise # 0
    /\ costs.total.rupees > 0

\* C7: the record a call returns for a valid input has exactly the keys
\* stope_type, dimensions, stability and costs; dimensions, stability and
\* costs have exactly their ten, seven and five keys; and the top-level
\* stope_type equals dimensions.stope_type.
C7_Shape ==
    pc = "Complete" =>
        /\ DOMAIN result = {"stope_type", "dimensions", "stability", "costs"}
        /\ DOMAIN result.dimensions =
              {"length", "width", "height", "volume", "hydraulic_radius",
               "design_hydraulic_radius", "stability_number", "rmr", "q_value",
               "stope_type"}
        /\ DOMAIN result.stability =
              {"safety_factor", "stability_class", "vertical_stress",
               "horizontal_stress", "k_ratio", "rock_strength", "dgms_compliant"}
        /\ DOMAIN result.costs =
              {"labor", "equipment", "support", "ventilation", "total"}
        /\ result.stope_type = result.dimensions.stope_type

C7_Witness ==
    /\ pc = "Complete"
    /\ InCoreDomain(given)
    /\ result.stope_type = "Sublevel Stoping"
    /\ result.dimensions.stope_type = "Sublevel Stoping"

\* C8: a call with an input of the validated domain goes through Received,
\* Classified, Sized, Assessed, Costed and Complete in that order, one step
\* at a time and each once, and every such call reaches Complete with the
\* aggregate record as its result.
StateOrder == <<"Received", "Classified", "Sized", "Assessed", "Costed", "Complete">>

C8_Linear ==
    /\ [](InCoreDomain(given) =>
            /\ Len(trace) \in 1..Len(StateOrder)
            /\ trace = SubSeq(StateOrder, 1, Len(trace))
            /\ pc = trace[Len(trace)])
    /\ [][InCoreDomain(given) /\ pc' # pc /\ pc # "Complete" =>
            \E i \in 1..(Len(StateOrder) - 1) :
                pc = StateOrder[i] /\ pc' = StateOrder[i + 1]]_vars
    /\ ((pc = "Received" /\ InCoreDomain(given)) ~>
            (/\ pc = "Complete"
             /\ result = [stope_type |-> stope_type, dimensions |-> dimensions,
                          stability |-> stability, costs |-> costs]))

C8_Witness ==
    /\ pc = "Complete"
    /\ InCoreDomain(given)
    /\ trace = StateOrder
    /\ calls = 2

\* C9: a call of calculate_stope_design on the data input_validation accepted
\* never returns a record with an 'error' key, so that the caller can read
\* stope_type, dimensions, stability and costs from the result.
C9_NoErrorAfterValidation ==
    origin = "validator" =>
        /\ pc # "Error"
        /\ pc = "Complete" => "error" \notin DOMAIN result
        /\ gui # "KeyError"

\* C10: a caller that calls again with the mapping of its previous call, the
\* same object or an equal one, gets a record identical to the previous one.
C10_Repeatable ==
    (repeat \in {"same_object", "equal_copy"} /\ pc \in {"Complete", "Error"}) => result = previous

C10_Witness ==
    /\ pc = "Complete"
    /\ repeat = "same_object"
    /\ "stope_type" \in DOMAIN given
    /\ result = previous

C12_InputUnchanged ==
    pc \in {"Complete", "Error"} => inputs = given

\* C13: concurrent calls of the GUI thread and of the export thread each
\* return the record calculate_stope_design returns for their input when it
\* runs alone, whichever starts or finishes first.
C13_Independent ==
    /\ pc \in {"Complete", "Error"} => result = design_alone(given)
    /\ export.pc \in {"Complete", "Error"} => export.result = design_alone(export.given)

\* the export thread's call, on another input, overtook the call of the GUI
\* thread, which is still running
C13_Witness ==
    /\ export.pc = "Complete"
    /\ pc = "Assessed"
    /\ given # export.given
    /\ files["cost_breakdown_chart.png"] < 0
    /\ executor = <<1, 0 - 1, 0 - 1>>

\* the closed intervals of the external validator, in tenths
ValidatorInterval(f) ==
    CASE f = "ore_thickness" -> [lo |-> 3, hi |-> 1000]
      [] f = "dip_angle"     -> [lo |-> 0, hi |-> 700]
      [] f = "rqd"           -> [lo |-> 250, hi |-> 1000]
      [] f = "mining_depth"  -> [lo |-> 50, hi |-> 20000]

\* C14: input_validation.validate_inputs returns valid = False whenever one
\* of the four fields parses to a value outside its closed interval, and its
\* message has no line for a field whose value is inside, the endpoints
\* included.
C14_Ranges ==
    \A f \in REQUIRED_FIELDS \cap DOMAIN checked.form :
        LET x      == checked.form[f]
            inside == FloatBetween(ValidatorInterval(f).lo, x, ValidatorInterval(f).hi)
        IN  /\ FloatParses(x) /\ ~inside => ~checked.valid
            /\ inside => f \notin checked.errors

\* C15: a mapping that supplies only the four required fields, each within
\* its interval, is accepted by input_validation.validate_inputs.
C15_FourFieldsAccepted ==
    (/\ DOMAIN checked.form = REQUIRED_FIELDS
     /\ \A f \in REQUIRED_FIELDS :
          FloatBetween(ValidatorInterval(f).lo, checked.form[f], ValidatorInterval(f).hi))
        => checked.valid

\* rqd values of [0, 100], in tenths, below and inside the validated domain
RqdSweep == {0, 5, 125, 245} \cup {r \in RqdValues : r <= 1000}

\* C16: raising rqd with the other inputs fixed never lowers rmr or q: of two
\* designs that differ in rqd only, the one with the larger rqd has the
\* larger or equal rounded rmr and q_value, and calculate_rmr_standard and
\* calculate_q_standard are non-decreasing from any rqd of [0, 100] to the
\* rqd of the design and beyond.
C16_Monotone ==
    /\ (repeat = "rqd" /\ Sized) =>
          /\ previous.dimensions.rmr <= dimensions.rmr
          /\ previous.dimensions.q_value <= dimensions.q_value
    /\ Sized =>
          \A r \in RqdSweep :
              LET here == given["rqd"].v
                  lo   == Min[r, here]
                  hi   == Max[r, here]
              IN  /\ calculate_rmr_standard(lo) <= calculate_rmr_standard(hi)
                  /\ calculate_q_standard(lo) <= calculate_q_standard(hi)

C16_Witness ==
    /\ pc = "Sized"
    /\ repeat = "rqd"
    /\ previous.dimensions.rmr < dimensions.rmr
    /\ previous.dimensions.q_value < dimensions.q_value

\* C17: the ventilation cost is volume x 120 x (1 + depth/1000) with depth
\* the mining_depth of the input, so that of two designs with the same
\* volume and different depths the ventilation costs differ.
C17_DepthFactor ==
    /\ Costed =>
          costs.ventilation =
              RoundAmount(ScaleAmount(AmountOf(dimensions.volume, 120, 100),
                                      10000 + given["mining_depth"].v))
    /\ (repeat = "mining_depth" /\ Costed
          /\ previous.dimensions.volume = dimensions.volume) =>
          previous.costs.ventilation # costs.ventilation

\* safety factors at and next to the thresholds, in hundredths
BandEdges == {0, 149, 150, 151, 199, 200, 201, 249, 250, 251, 300}

\* the band of the claim for a rounded safety factor in hundredths, under the
\* label assess_stability gives it
BandOf(sf) ==
    IF sf < 150 THEN "Unstable (<DGMS)"
    ELSE IF sf < 200 THEN "Marginal"
    ELSE IF sf < 250 THEN "Stable"
    ELSE "Highly Stable"

\* C18: the stability class of every assessed design is the band of its
\* rounded safety factor, the bands being sf < 1.5, [1.5, 2.0), [2.0, 2.5)
\* and sf >= 2.5, each lower bound inclusive, and it is one of the four
\* classes; the same holds of the verdict on a rock strength that gives a
\* safety factor at or next to a threshold under the stress of the design.
C18_Bands ==
    Assessed =>
        /\ stability.stability_class = BandOf(stability.safety_factor)
        /\ stability.stability_class \in
               {"Unstable (<DGMS)", "Marginal", "Stable", "Highly Stable"}
        /\ \A k \in BandEdges :
              LET sig_v   == Max[1, inputs["mining_depth"].v] * IBE_STRESS_FACTOR
                  verdict == StabilityVerdict(k * sig_v * 10, sig_v)
              IN  /\ verdict.safety_factor = k
                  /\ verdict.stability_class = BandOf(k)

C18_Witness ==
    /\ pc = "Assessed"
    /\ stability.safety_factor = 150
    /\ stability.stability_class = "Marginal"

\* C19: in every dimensions record the width is the unadjusted width times
\* the safety adjustment, to 2 decimals, the length is 10 x that width and
\* the height 0.8 x that width, to 2 decimals; neither is 10 x or 0.8 x the
\* unadjusted width.
C19_Propagated ==
    Sized =>
        LET width_raw == UnadjustedWidth(given)
        IN  /\ dimensions.width = RoundDiv[width_raw * SafetyAdj, 1000000]
            /\ dimensions.length = RoundDiv[dimensions.width * 10, 1]
            /\ dimensions.height = RoundDiv[dimensions.width * 8, 10]
            /\ dimensions.length # RoundDiv[width_raw * 10, 10000]
            /\ dimensions.height # RoundDiv[width_raw * 8, 100000]

C19_Witness ==
    /\ pc = "Sized"
    /\ dimensions.width > 450
    /\ dimensions.length = 10 * dimensions.width
    /\ dimensions.length # RoundDiv[UnadjustedWidth(given) * (SafetyAdj \div 10), 10000]

\* C20 as stated: length, height, volume and geometric hydraulic radius are
\* the 2-decimal roundings of the values computed from the unrounded
\* adjusted width.
C20_FullPrecision ==
    Sized =>
        LET g == StopeGeometry_full_precision(UnadjustedWidth(given))
        IN  /\ dimensions.length = g.length
            /\ dimensions.height = g.height
            /\ dimensions.volume = g.volume
            /\ dimensions.hydraulic_radius = g.hydraulic_radius

\* C20: the width is the 2-decimal rounding of the unrounded product of
\* width_raw and the safety adjustment, and that rounded width feeds the
\* rest: length and height are the 2-decimal roundings of 10 x and 0.8 x the
\* rounded width, volume that of the product of the rounded width, length
\* and height, and the geometric hydraulic radius that of
\* (width x height) / (2 x (width + height)) on the rounded width and height.
C20_RoundedWidthFeeds ==
    Sized =>
        LET width  == RoundDiv[UnadjustedWidth(given) * SafetyAdj, 1000000]
            length == RoundDiv[width * 10, 1]
            height == RoundDiv[width * 8, 10]
        IN  /\ dimensions.width = width
            /\ dimensions.length = length
            /\ dimensions.height = height
            /\ dimensions.volume = RoundMulDiv[width * length, height, 10000]
            /\ dimensions.hydraulic_radius =
                   RoundDiv[width * height, 2 * (width + height)]

C20_Witness ==
    LET g == StopeGeometry_full_precision(UnadjustedWidth(given))
    IN  /\ pc = "Sized"
        /\ dimensions.width = g.width
        /\ dimensions.length # g.length
        /\ dimensions.height # g.height
        /\ dimensions.volume # g.volume

\* C21: a call of assess_stability on any mining depth, zero and negative
\* depths included, uses a depth of at least 0.1 m, so that the vertical stress
\* it divides by is strictly positive, raises nothing and returns a safety
\* factor and a class.
C21_NoDivisionByZero ==
    unit.fn = "assess_stability" =>
        /\ unit.stresses.depth >= 1
        /\ unit.stresses.depth >= unit.args["mining_depth"].v
        /\ unit.stresses.sig_v > 0
        /\ "raised" \notin DOMAIN unit.out
        /\ unit.out.safety_factor \in Nat
        /\ unit.out.stability_class \in
               {"Unstable (<DGMS)", "Marginal", "Stable", "Highly Stable"}

C21_Witness ==
    /\ unit.fn = "assess_stability"
    /\ unit.args["mining_depth"].v <= 0
    /\ unit.stresses.depth = 1
    /\ unit.out.safety_factor > 0
    /\ unit.out.vertical_stress = 0

\* C22: the design hydraulic radius of N' is 2.5 + 0.5 N' up to and including
\* N' = 3, 4.0 + 0.8 N' above 3 up to and including 10, and
\* 7.0 + 5.0 log10(N') above 10 only, so that no logarithm is taken of an
\* N' of zero or less.
C22_Branches ==
    unit.fn = "calculate_hydraulic_radius_design" =>
        LET n_prime == unit.args
        IN  /\ n_prime <= 3000000 => unit.out = 2500000 + n_prime \div 2
            /\ (3000000 < n_prime /\ n_prime <= 10000000) =>
                   unit.out = 4000000 + (8 * n_prime) \div 10
            /\ n_prime > 10000000 =>
                   /\ unit.out = 7000000 + 5 * Log10Micro(n_prime)
                   /\ unit.out >= 12000000

C22_Witness ==
    /\ unit.fn = "calculate_hydraulic_radius_design"
    /\ unit.args = 3000000
    /\ unit.out = 4000000

\* C23: the k-ratio lies in [0.5, 2.0] and does not rise with depth: of two
\* designs that differ in mining_depth only, the deeper one has the smaller
\* or equal k-ratio.
C23_KDecreasing ==
    /\ Assessed =>
          /\ calculate_horizontal_k_ratio_standard(given["mining_depth"].v) >= 500000
          /\ calculate_horizontal_k_ratio_standard(given["mining_depth"].v) <= 2000000
    /\ (repeat = "mining_depth" /\ Assessed) =>
          previous.stability.k_ratio >= stability.k_ratio

\* C24: the validator admits only finite numbers: a mapping with a required
\* field that parses to NaN or to an infinity is rejected, and the validated
\* data a call receives holds a finite number for each of the four fields.
C24_FiniteOnly ==
    /\ \A f \in REQUIRED_FIELDS \cap DOMAIN checked.form :
          checked.form[f].kind \in {"nan", "inf", "ninf"} => ~checked.valid
    /\ origin = "validator" =>
          \A f \in REQUIRED_FIELDS : given[f].kind = "num"

\* C27: when a call has returned its record, every visualization file under
\* reports/, the 3D isometric view included, shows that call.
C27_RendersComplete ==
    pc = "Complete" => \A f \in ReportFiles : files[f] = calls

\* C28: a call its own validation rejects returns a record with the single
\* key error and does nothing else: the mapping is as it was passed, no type,
\* dimensions, stability or costs have been computed, no file under reports/
\* shows the call and no 3D render of it has been submitted.
C28_RejectedCleanly ==
    pc = "Error" =>
        /\ DOMAIN result = {"error"}
        /\ ~validate_inputs(given).valid
        /\ inputs = given
        /\ stope_type = "None"
        /\ dimensions = Unset /\ stability = Unset /\ costs = Unset
        /\ trace = <<"Received", "Error">>
        /\ \A f \in ReportFiles : files[f] # calls
        /\ \A i \in DOMAIN executor : executor[i] # calls

C28_Witness ==
    /\ pc = "Error"
    /\ calls = 2
    /\ REQUIRED_FIELDS \subseteq DOMAIN given
    /\ given["rqd"].kind = "num"
    /\ given["rqd"].v = 245
    /\ files["stope_plan_view.png"] = 1
    /\ executor # << >>

\* C29: of two designs that differ in dip_angle only, whatever their stope
\* types and dimensions, the safety factor, the stability class and the DGMS
\* compliance verdict are the same.
C29_DipIndependent ==
    (repeat = "dip_angle" /\ Assessed) =>
        /\ stability.safety_factor = previous.stability.safety_factor
        /\ stability.stability_class = previous.stability.stability_class
        /\ stability.dgms_compliant = previous.stability.dgms_compliant

C29_Witness ==
    /\ pc = "Assessed"
    /\ repeat = "dip_angle"
    /\ stope_type # previous.stope_type
    /\ dimensions.width # previous.dimensions.width
    /\ stability.safety_factor = previous.stability.safety_factor
    /\ ~stability.dgms_compliant

\* C30: every dimensions record reports the geometric hydraulic radius
\* (width x height) / (2 x (width + height)) and the design hydraulic radius
\* of the stability graph under keys of their own, and the geometric one does
\* not exceed the design one.
C30_WithinDesignRadius ==
    Sized =>
        /\ {"hydraulic_radius", "design_hydraulic_radius"} \subseteq DOMAIN dimensions
        /\ dimensions.hydraulic_radius =
               RoundDiv[dimensions.width * dimensions.height,
                        2 * (dimensions.width + dimensions.height)]
        /\ dimensions.hydraulic_radius <= dimensions.design_hydraulic_radius

C30_Witness ==
    /\ pc = "Sized"
    /\ dimensions.width > 1000
    /\ dimensions.hydraulic_radius > 200
    /\ dimensions.hydraulic_radius < dimensions.design_hydraulic_radius

\* every thread is outside the render functions and no task is queued
RendersFinished ==
    /\ render.main.at = "idle"
    /\ executor = << >>
    /\ \A w \in DOMAIN render.workers : render.workers[w].at = "idle"

\* C25: every figure closed was closed by the thread that created it, and
\* once all renders have finished pyplot holds no figure.
C25_OwnFigureClosed ==
    /\ \A p \in render.closes : p[1] = p[2]
    /\ RendersFinished => render.figs = << >>

\* C26: at most one 3D render is executing; a running render is older than
\* every queued one and not older than the one the file shows; and once every
\* submitted render has completed, the 3D file shows the request submitted
\* last.
C26_OneAtATimeInOrder ==
    /\ Cardinality({w \in DOMAIN render.workers : render.workers[w].at # "idle"}) <= 1
    /\ \A w \in DOMAIN render.workers :
          render.workers[w].at # "idle" =>
              /\ \A i \in DOMAIN executor : render.workers[w].task < executor[i]
              /\ files["stope_3d_isometric.png"] <= render.workers[w].task
    /\ \A i, j \in DOMAIN executor : i < j => executor[i] < executor[j]
    /\ (RendersFinished /\ calls > 0) => files["stope_3d_isometric.png"] = calls

C26_Witness ==
    /\ RendersFinished
    /\ calls = 2
    /\ files["stope_3d_isometric.png"] = 2
    /\ files["stress_strength_comparison.png"] = 2

====
